---- MODULE Spec2Model ----
(***************************************************************************)
(* Model of gabia_sms/core.py: the GabiaSMS client.                        *)
(*                                                                         *)
(* Python values are records [ty, s, items, elems]: ty is the Python type, *)
(* s the characters of a str (or the digits of an int), items the elements *)
(* of a list in order, elems the elements of a set.  Elements of lists and *)
(* sets are character sequences (phone numbers).                           *)
(***************************************************************************)
EXTENDS Integers, Sequences, FiniteSets, TLC

VARIABLES djangoSettings, client, now, call

vars == <<djangoSettings, client, now, call>>

---------------------------------------------------------------------------
(* Bounds of the model *)

\* the clock runs over 0..MaxTime ticks
MaxTime == 3
\* ticks of the clock per second: timestamp() is fractional, int() truncates
TicksPerSecond == 2
\* get_nonce() draws from 1..NonceCount
NonceCount == 2
\* lookup keys passed to get_send_result: 0..MaxKey
MaxKey == 2
\* candidate receivers carry 6..MaxTail characters after the third
MaxTail == 9

---------------------------------------------------------------------------
(* Python values *)

PyNone == [ty |-> "NoneType", s |-> <<>>, items |-> <<>>, elems |-> {}]
PyStr(chars) == [ty |-> "str", s |-> chars, items |-> <<>>, elems |-> {}]
PyInt(digits) == [ty |-> "int", s |-> digits, items |-> <<>>, elems |-> {}]
PyList(xs) == [ty |-> "list", s |-> <<>>, items |-> xs, elems |-> {}]
PySetOf(S) == [ty |-> "set", s |-> <<>>, items |-> <<>>, elems |-> S]

\* Python truth value of v (the operand of `not`, `and`)
Truthy(v) ==
    CASE v.ty = "NoneType" -> FALSE
      [] v.ty = "str" -> Len(v.s) > 0
      [] v.ty = "int" -> v.s /= <<"0">>
      [] v.ty = "list" -> Len(v.items) > 0
      [] v.ty = "set" -> v.elems /= {}

IsInstance(v, ty) == v.ty = ty

Range(f) == {f[i] : i \in DOMAIN f}

\* set(x): a list gives its distinct elements, a str its distinct characters,
\* anything else here is not iterable (TypeError)
IsIterable(v) == v.ty \in {"str", "list", "set"}

PySet(v) ==
    CASE v.ty = "list" -> PySetOf(Range(v.items))
      [] v.ty = "str" -> PySetOf({<<v.s[i]>> : i \in DOMAIN v.s})
      [] v.ty = "set" -> v
      [] OTHER -> PySetOf({})

---------------------------------------------------------------------------
(* Module constants, core.py lines 21-30 *)

Digit == {"0", "1", "2", "3", "4", "5", "6", "7", "8", "9"}

\* the character class [0|1|6|7|8|9] of PHONE_NUMBER_REGEX
RegexThirdClass == {"0", "|", "1", "6", "7", "8", "9"}

\* re.compile(PHONE_NUMBER_REGEX).search(s): a match anywhere in s of
\* '0','1', one character of the class, then at least 7 digits ({7,8} is
\* satisfied by 7)
PHONE_NUMBER_REGEX_search(s) ==
    \E i \in 1..Len(s) :
        /\ i + 9 <= Len(s)
        /\ s[i] = "0"
        /\ s[i + 1] = "1"
        /\ s[i + 2] \in RegexThirdClass
        /\ \A j \in 3..9 : s[i + j] \in Digit

REQUIRED_SETTINGS == <<"API_ID", "API_KEY", "SENDER">>
KNOWN_SMS_TYPES == {"sms", "lms", "multi_sms", "multi_lms"}
SINGLE_SMS_TYPES == {"sms", "lms"}
MULTI_SMS_TYPES == {"multi_sms", "multi_lms"}
SUCCESS_CODE == "0000"

MissingSetting(key) == <<"GABIA_SMS_SETTINGS", key, "is required">>

---------------------------------------------------------------------------
(* Outcomes of a call: a returned value or a raised exception *)

\* no key: a value no timestamp takes
NoKey == 0 - 1

Return(key, code) ==
    [kind |-> "return", exc |-> "", msg |-> <<>>, key |-> key, code |-> code]

Raise(exc, msg) ==
    [kind |-> "raise", exc |-> exc, msg |-> msg, key |-> NoKey, code |-> ""]

SMSModuleException(msg) == Raise("SMSModuleException", msg)

NoOutcome == [kind |-> "none", exc |-> "", msg |-> <<>>, key |-> NoKey, code |-> ""]

\* the exception classes the model lets hooks and the remote call raise;
\* xmlrpc_lib.Error is the base class of Fault, ProtocolError, ResponseError
XmlrpcErrors == {"Fault", "ProtocolError"}

\* `except xmlrpc_lib.Error`: the class test of the except clause
IsXmlrpcError(exc) == exc \in XmlrpcErrors

BadRequest == SMSModuleException(<<"Bad request. Please check api docs">>)

---------------------------------------------------------------------------
(* Settings, core.py lines 38-53.  A dict is the sequence of its           *)
(* <<key, value>> pairs in insertion order.                                *)

Keys(d) == {d[i][1] : i \in DOMAIN d}

Lookup(d, key) == d[CHOOSE i \in DOMAIN d : d[i][1] = key][2]

\* dict.setdefault(key, value)
SetDefault(d, key, value) ==
    IF key \in Keys(d) THEN d ELSE Append(d, <<key, value>>)

RECURSIVE SetDefaults(_, _, _)
SetDefaults(d, keys, i) ==
    IF i > Len(keys) THEN d
    ELSE SetDefaults(SetDefault(d, keys[i], PyNone), keys, i + 1)

\* __get_module_settings: getattr(settings, 'GABIA_SMS_SETTINGS', {}) with
\* every required key defaulted to None
get_module_settings(source) ==
    SetDefaults(IF source.present THEN source.dict ELSE <<>>, REQUIRED_SETTINGS, 1)

\* __validate_settings: the first item of the dict, in its order, whose value
\* is falsy raises
validate_settings(settings) ==
    LET bad == {i \in DOMAIN settings : ~Truthy(settings[i][2])}
    IN  IF bad = {} THEN NoOutcome
        ELSE LET first == CHOOSE i \in bad : \A j \in bad : i <= j
             IN  SMSModuleException(MissingSetting(settings[first][1]))

---------------------------------------------------------------------------
(* Parameter validation, core.py lines 55-71 *)

\* __validate_required_params without the phone-number test
validate_required_params_nophone(message, receiver) ==
    IF ~(Truthy(message) /\ Truthy(receiver))
    THEN SMSModuleException(<<"Please check required parameters!">>)
    ELSE IF ~IsInstance(message, "str") \/ ~IsInstance(receiver, "str")
    THEN SMSModuleException(<<"Please check parameters type!">>)
    ELSE NoOutcome

\* __validate_required_params
validate_required_params(message, receiver) ==
    IF ~(Truthy(message) /\ Truthy(receiver))
    THEN SMSModuleException(<<"Please check required parameters!">>)
    ELSE IF ~IsInstance(message, "str") \/ ~IsInstance(receiver, "str")
    THEN SMSModuleException(<<"Please check parameters type!">>)
    ELSE IF ~PHONE_NUMBER_REGEX_search(receiver.s)
    THEN SMSModuleException(<<"Please check phone number!">>)
    ELSE NoOutcome

\* __validate_required_multi_params
validate_required_multi_params(message, receivers) ==
    IF ~(Truthy(message) /\ Truthy(receivers))
    THEN SMSModuleException(<<"Please check required parameters!">>)
    ELSE IF ~IsInstance(receivers, "list") \/ ~IsInstance(receivers, "set")
    THEN SMSModuleException(<<"Please check parameters type!">>)
    ELSE IF \E phone_number \in receivers.elems \cup Range(receivers.items) :
                ~PHONE_NUMBER_REGEX_search(phone_number)
    THEN SMSModuleException(<<"Please check phone number!">>)
    ELSE NoOutcome

---------------------------------------------------------------------------
(* Request parameters, core.py lines 93-112 *)

\* escape_xml_string of gabia_sms.utils: the five XML entities
EscapeChar(c) ==
    CASE c = "&" -> <<"&", "a", "m", "p", ";">>
      [] c = "<" -> <<"&", "l", "t", ";">>
      [] c = ">" -> <<"&", "g", "t", ";">>
      [] c = "\"" -> <<"&", "q", "u", "o", "t", ";">>
      [] c = "'" -> <<"&", "a", "p", "o", "s", ";">>
      [] OTHER -> <<c>>

RECURSIVE EscapeChars(_)
EscapeChars(s) ==
    IF s = <<>> THEN <<>> ELSE EscapeChar(Head(s)) \o EscapeChars(Tail(s))

escape_xml_string(v) == IF v.ty = "str" THEN PyStr(EscapeChars(v.s)) ELSE v

\* int(timezone.now().timestamp()) with the clock at t ticks, not truncated
\* to seconds
TimestampKeyTicks(t) == t

\* int(timezone.now().timestamp()) with the clock at t ticks
TimestampKey(t) == t \div TicksPerSecond

\* ','.join(xs) for a sequence xs of strings
RECURSIVE JoinSeq(_)
JoinSeq(xs) ==
    IF xs = <<>> THEN <<>>
    ELSE IF Len(xs) = 1 THEN xs[1]
    ELSE xs[1] \o <<",">> \o JoinSeq(Tail(xs))

\* the orders in which a set may be iterated
Orders(S) ==
    {f \in [1..Cardinality(S) -> S] : \A i, j \in DOMAIN f : i /= j => f[i] /= f[j]}

\* ','.join(receivers) for a set: one result per iteration order
JoinSet(S) == {JoinSeq(f) : f \in Orders(S)}

\* sms_type[-3:] for the known types
Last3(sms_type) ==
    CASE sms_type = "multi_sms" -> "sms"
      [] sms_type = "multi_lms" -> "lms"
      [] OTHER -> sms_type

NoParam ==
    [sender |-> PyNone, sms_type |-> "", message |-> PyNone, receiver |-> PyNone,
     title |-> PyNone, scheduled_time |-> "", key |-> NoKey]

Built(outcome, param) == [outcome |-> outcome, param |-> param]

\* __get_sms_param: the set of its possible results, each an exception
\* raised or the dict returned
get_sms_param(settings, message, receiver, title, scheduled_time, sms_type, t) ==
    IF sms_type \in SINGLE_SMS_TYPES
    THEN LET v == validate_required_params(message, receiver)
         IN  IF v.kind = "raise" THEN {Built(v, NoParam)}
             ELSE {Built(NoOutcome,
                     [sender |-> Lookup(settings, "SENDER"),
                      sms_type |-> sms_type,
                      message |-> escape_xml_string(message),
                      receiver |-> receiver,
                      title |-> escape_xml_string(title),
                      scheduled_time |-> scheduled_time,
                      key |-> TimestampKey(t)])}
    ELSE IF ~IsIterable(receiver)
    THEN {Built(Raise("TypeError", <<"object is not iterable">>), NoParam)}
    ELSE LET receivers == PySet(receiver)
             v == validate_required_multi_params(message, receivers)
         IN  IF v.kind = "raise" THEN {Built(v, NoParam)}
             ELSE {Built(NoOutcome,
                     [sender |-> Lookup(settings, "SENDER"),
                      sms_type |-> Last3(sms_type),
                      message |-> escape_xml_string(message),
                      receiver |-> PyStr(joined),
                      title |-> escape_xml_string(title),
                      scheduled_time |-> scheduled_time,
                      key |-> TimestampKey(t)]) : joined \in JoinSet(receivers.elems)}

---------------------------------------------------------------------------
(* The remote call, core.py lines 73-77, 135-195 *)

\* __get_md5_access_token: nonce + md5(nonce + API_KEY).hexdigest()
get_md5_access_token(settings, nonce) ==
    [nonce |-> nonce, md5 |-> [nonce |-> nonce, key |-> Lookup(settings, "API_KEY")]]

\* what the gateway (the ServerProxy call) does with one request: it answers
\* with a response carrying a result code, or the call raises
Codes == {"0000", "0001", "E001"}
Response(code) == [kind |-> "response", code |-> code, exc |-> ""]
Fault(exc) == [kind |-> "raise", code |-> "", exc |-> exc]
NoGateway == [kind |-> "none", code |-> "", exc |-> ""]
GatewayOutcomes ==
    {Response(c) : c \in Codes}
        \cup {Fault(e) : e \in XmlrpcErrors \cup {"ConnectionRefusedError"}}

\* get_result_code of gabia_sms.parser
get_result_code(response) == response.code

\* the hooks a subclass defines: the default `pass`, or a body that raises
HookBehaviours == {"pass", "ValueError", "Fault"}

Rendered(format, settings, token, param) ==
    [format |-> format,
     api_id |-> Lookup(settings, "API_ID"),
     access_token |-> token,
     sms_type |-> param.sms_type,
     key |-> param.key,
     title |-> param.title,
     message |-> param.message,
     sender |-> param.sender,
     receiver |-> param.receiver,
     scheduled_time |-> param.scheduled_time]

\* lines 162-167: the template is chosen by param['sms_type']
RequestFormat(sms_type) ==
    IF sms_type \in SINGLE_SMS_TYPES THEN "REQUEST_SMS_XML_FORMAT"
    ELSE "REQUEST_MULTI_SMS_XML_FORMAT"

Done(outcome, events, requests) ==
    [outcome |-> outcome, events |-> events, requests |-> requests]

\* the except clause, lines 192-195 and 151-154: an xmlrpc_lib.Error is
\* logged and replaced, any other exception leaves the with block as it is
Except(exc, events, requests) ==
    IF IsXmlrpcError(exc)
    THEN Done(BadRequest, events \o <<"log.error", "proxy.close">>, requests)
    ELSE Done(Raise(exc, <<>>), events \o <<"proxy.close">>, requests)

\* lines 182-190 with a result code other than SUCCESS_CODE raising
AfterResponseStrict(param, result_code, post, events, requests) ==
    IF result_code /= SUCCESS_CODE
    THEN Except("Fault", events \o <<"log.debug">>, requests)
    ELSE IF post /= "pass" THEN Except(post, events \o <<"post_sent_sms">>, requests)
    ELSE Done(Return(param.key, ""),
              events \o <<"post_sent_sms", "proxy.close">>, requests)

\* lines 182-190: the code is logged when it is not SUCCESS_CODE, then the
\* post hook runs and the key is returned
AfterResponse(param, result_code, post, events, requests) ==
    LET logged == IF result_code /= SUCCESS_CODE
                  THEN events \o <<"log.debug">> ELSE events
    IN  IF post /= "pass"
        THEN Except(post, logged \o <<"post_sent_sms">>, requests)
        ELSE Done(Return(param.key, ""),
                  logged \o <<"post_sent_sms", "proxy.close">>, requests)

\* __send_sms
send_sms(settings, before, post, param, nonce, gw) ==
    LET opened == <<"ServerProxy", "before_send_sms">>
    IN  IF before /= "pass" THEN Except(before, opened, <<>>)
        ELSE LET request == Rendered(RequestFormat(param.sms_type), settings,
                                     get_md5_access_token(settings, nonce), param)
                 called == opened \o <<"proxy.gabiasms">>
             IN  IF gw.kind = "raise" THEN Except(gw.exc, called, <<request>>)
                 ELSE AfterResponse(param, get_result_code(gw), post, called,
                                    <<request>>)

\* a finished send with the param dict it built (NoParam when none was)
Sent(d, param) ==
    [outcome |-> d.outcome, events |-> d.events, requests |-> d.requests,
     param |-> param]

\* send
send(settings, before, post, message, receiver, title, sms_type, scheduled_time, t, nonce, gw) ==
    IF sms_type \notin KNOWN_SMS_TYPES
    THEN {Sent(Done(SMSModuleException(<<"Please check sms type!">>), <<>>, <<>>),
               NoParam)}
    ELSE {IF b.outcome.kind = "raise" THEN Sent(Done(b.outcome, <<>>, <<>>), NoParam)
          ELSE Sent(send_sms(settings, before, post, b.param, nonce, gw), b.param) :
             b \in get_sms_param(settings, message, receiver, title,
                                 scheduled_time, sms_type, t)}

\* get_send_result with a result code other than SUCCESS_CODE raising
get_send_result_strict(settings, key, nonce, gw) ==
    LET request == Rendered("REQUEST_SMS_RESULT_FORMAT", settings,
                            get_md5_access_token(settings, nonce),
                            [NoParam EXCEPT !.key = key])
        called == <<"ServerProxy", "proxy.gabiasms">>
    IN  IF gw.kind = "raise" THEN Except(gw.exc, called, <<request>>)
        ELSE IF get_result_code(gw) /= SUCCESS_CODE
        THEN Except("Fault", called, <<request>>)
        ELSE Done(Return(NoKey, get_result_code(gw)),
                  called \o <<"proxy.close">>, <<request>>)

\* get_send_result
get_send_result(settings, key, nonce, gw) ==
    LET request == Rendered("REQUEST_SMS_RESULT_FORMAT", settings,
                            get_md5_access_token(settings, nonce),
                            [NoParam EXCEPT !.key = key])
        called == <<"ServerProxy", "proxy.gabiasms">>
    IN  IF gw.kind = "raise" THEN Except(gw.exc, called, <<request>>)
        ELSE Done(Return(NoKey, get_result_code(gw)),
                  called \o <<"proxy.close">>, <<request>>)

---------------------------------------------------------------------------
(* Inputs *)

Chars(n, c) == [i \in 1..n |-> c]

Phone10 == <<"0", "1", "0", "1", "2", "3", "4", "5", "6", "7">>
Phone11 == <<"0", "1", "0", "1", "2", "3", "4", "5", "6", "7", "8">>
Phone11b == <<"0", "1", "6", "9", "8", "7", "6", "5", "4", "3", "2">>
Landline == <<"0", "2", "1", "2", "3", "4", "5", "6", "7", "8">>

Messages ==
    {PyNone, PyStr(<<>>), PyStr(<<"h", "i">>), PyStr(<<"a", "<", "b">>),
     PyInt(<<"5">>)}

Titles == {PyStr(<<"S", "E", "N", "D">>), PyStr(<<"a", "&", "b">>)}

Receivers ==
    {PyNone, PyStr(<<>>), PyInt(<<"5">>),
     PyStr(Phone10), PyStr(Phone11), PyStr(Landline),
     PyStr(<<"x">> \o Phone11), PyStr(<<"0", "1", "|">> \o Chars(7, "1")),
     PyList(<<>>), PyList(<<Phone11>>), PyList(<<Phone11, Phone11>>),
     PyList(<<Phone11, Phone11b>>), PyList(<<Phone11, Landline>>),
     PySetOf({Phone10, Phone11})}

SmsTypes == KNOWN_SMS_TYPES \cup {"mms"}

ScheduledTimes == {"0"}

\* receivers around the phone-number shape: an optional extra character in
\* front, "01", a third character, 6..MaxTail further characters (all digits,
\* or with one letter among them), an optional extra character behind
ThirdChars == {"0", "1", "6", "7", "8", "9", "|", "2", "a"}

Tails ==
    {Chars(n, "3") : n \in 6..MaxTail}
        \cup {Chars(3, "3") \o <<"a">> \o Chars(n - 4, "3") : n \in 7..MaxTail}

PhoneCandidates ==
    {PyStr(pre \o <<"0", "1", third>> \o tail \o post) :
        pre \in {<<>>, <<"x">>}, third \in ThirdChars, tail \in Tails,
        post \in {<<>>, <<"x">>}}

SettingValues == {PyNone, PyStr(<<>>), PyStr(<<"v">>)}

SettingKeys == Range(REQUIRED_SETTINGS) \cup {"TIMEOUT"}

\* every GABIA_SMS_SETTINGS dict over SettingKeys, in every key order
AllDicts ==
    UNION {{d \in [1..n -> SettingKeys \X SettingValues] :
               \A i, j \in 1..n : i /= j => d[i][1] /= d[j][1]} :
           n \in 0..Cardinality(SettingKeys)}

Source(d) == [present |-> TRUE, dict |-> d]
NoSource == [present |-> FALSE, dict |-> <<>>]

AllSources == {NoSource} \cup {Source(d) : d \in AllDicts}

GoodDict ==
    <<<<"API_ID", PyStr(<<"i", "d", "1">>)>>, <<"API_KEY", PyStr(<<"k", "e", "y", "1">>)>>,
      <<"SENDER", PyStr(Phone10)>>>>

SomeSources ==
    {NoSource, Source(GoodDict), Source(SubSeq(GoodDict, 1, 2))}

---------------------------------------------------------------------------
(* The state machine *)

NoArgs ==
    [message |-> PyNone, receiver |-> PyNone, title |-> PyNone, sms_type |-> "",
     scheduled_time |-> "", key |-> NoKey]

NoCall ==
    [op |-> "none", args |-> NoArgs, source |-> NoSource, outcome |-> NoOutcome,
     events |-> <<>>, requests |-> <<>>, param |-> NoParam, gw |-> NoGateway,
     readAt |-> NoKey]

Count(events, e) == Cardinality({i \in DOMAIN events : events[i] = e})

\* the gateway's part in a call: none when no remote call was issued
Gateway(events, gw) ==
    IF Count(events, "proxy.gabiasms") > 0 THEN gw ELSE NoGateway

InitWith(sources, befores, posts) ==
    /\ djangoSettings \in sources
    /\ client \in [constructed : {FALSE}, settings : {<<>>},
                   before : befores, post : posts]
    /\ now = 0
    /\ call = NoCall

Init == InitWith(SomeSources, HookBehaviours, HookBehaviours)

\* GabiaSMS(): __init__, lines 38-40
Construct ==
    /\ call.op = "none"
    /\ ~client.constructed
    /\ LET module_settings == get_module_settings(djangoSettings)
           v == validate_settings(module_settings)
       IN  /\ djangoSettings' =
                 IF djangoSettings.present THEN Source(module_settings)
                 ELSE djangoSettings
           /\ client' = IF v.kind = "raise" THEN client
                        ELSE [client EXCEPT !.constructed = TRUE,
                                            !.settings = module_settings]
           /\ call' = [NoCall EXCEPT !.op = "init", !.outcome = v,
                                     !.source = djangoSettings]
    /\ UNCHANGED now

\* the clock advances
Tick ==
    /\ call.op = "none"
    /\ now < MaxTime
    /\ now' = now + 1
    /\ UNCHANGED <<djangoSettings, client, call>>

SendWith(messages, receivers, titles, types) ==
    /\ call.op = "none"
    /\ client.constructed
    /\ \E message \in messages, receiver \in receivers, title \in titles,
          sms_type \in types, scheduled_time \in ScheduledTimes,
          nonce \in 1..NonceCount, gw \in GatewayOutcomes :
          \E r \in send(client.settings, client.before, client.post, message,
                        receiver, title, sms_type, scheduled_time, now, nonce, gw) :
             call' = [op |-> "send",
                      args |-> [message |-> message, receiver |-> receiver,
                                title |-> title, sms_type |-> sms_type,
                                scheduled_time |-> scheduled_time, key |-> NoKey],
                      source |-> NoSource,
                      outcome |-> r.outcome, events |-> r.events,
                      requests |-> r.requests, param |-> r.param,
                      gw |-> Gateway(r.events, gw),
                      readAt |-> IF r.param = NoParam THEN NoKey ELSE now]
    /\ UNCHANGED <<djangoSettings, client, now>>

\* client.send(message, receiver, title, sms_type, scheduled_time)
Send == SendWith(Messages, Receivers, Titles, SmsTypes)

\* client.send("hi", receiver) and client.send("hi", receiver, sms_type="lms")
SendPhone ==
    SendWith({PyStr(<<"h", "i">>)}, PhoneCandidates, {PyStr(<<"S", "E", "N", "D">>)},
             SINGLE_SMS_TYPES)

\* client.get_send_result(key)
GetSendResult ==
    /\ call.op = "none"
    /\ client.constructed
    /\ \E key \in 0..MaxKey, nonce \in 1..NonceCount, gw \in GatewayOutcomes :
          LET r == get_send_result(client.settings, key, nonce, gw)
          IN  call' = [NoCall EXCEPT !.op = "get_send_result",
                                     !.args = [NoArgs EXCEPT !.key = key],
                                     !.outcome = r.outcome, !.events = r.events,
                                     !.requests = r.requests,
                                     !.gw = Gateway(r.events, gw)]
    /\ UNCHANGED <<djangoSettings, client, now>>

\* the caller takes the outcome of the call and goes on
Resume ==
    /\ call.op /= "none"
    /\ call' = NoCall
    /\ UNCHANGED <<djangoSettings, client, now>>

Next == Construct \/ Tick \/ Send \/ GetSendResult \/ Resume

Spec == Init /\ [][Next]_vars

\* sends of the one message to every candidate receiver, default hooks
InitPhone == InitWith({Source(GoodDict)}, {"pass"}, {"pass"})

NextPhone == Construct \/ Tick \/ SendPhone \/ Resume

SpecPhone == InitPhone /\ [][NextPhone]_vars

\* construction from every configuration
InitSettings == InitWith(AllSources, {"pass"}, {"pass"})

NextSettings == Construct \/ Resume

SpecSettings == InitSettings /\ [][NextSettings]_vars

---------------------------------------------------------------------------
(* The claims *)

IsSend == call.op = "send"

Remote == Count(call.events, "proxy.gabiasms")
Before == Count(call.events, "before_send_sms")
Post == Count(call.events, "post_sent_sms")
Opened == Count(call.events, "ServerProxy")

ValidationMessages ==
    {<<"Please check required parameters!">>, <<"Please check parameters type!">>,
     <<"Please check phone number!">>}

IsValidationError(o) ==
    o.kind = "raise" /\ o.exc = "SMSModuleException" /\ o.msg \in ValidationMessages

\* the phone-number shape: '0', '1', one of 0 1 6 7 8 9, then 7 to 8 digits,
\* and nothing else
HasPhoneShape(s) ==
    /\ Len(s) \in {10, 11}
    /\ s[1] = "0"
    /\ s[2] = "1"
    /\ s[3] \in {"0", "1", "6", "7", "8", "9"}
    /\ \A i \in 4..Len(s) : s[i] \in Digit

\* the numbers of a list or set of receivers
Numbers(v) == v.elems \cup Range(v.items)

\* inputs of a send that the validation of its variant rejects: an empty
\* message or receiver, a message or receiver that is no string for a single
\* variant, a receiver the phone-number check of the code refuses
RejectedInput(a) ==
    \/ /\ a.sms_type \in SINGLE_SMS_TYPES
       /\ \/ ~Truthy(a.message)
          \/ ~Truthy(a.receiver)
          \/ a.message.ty /= "str"
          \/ a.receiver.ty /= "str"
          \/ ~PHONE_NUMBER_REGEX_search(a.receiver.s)
    \/ /\ a.sms_type \in MULTI_SMS_TYPES
       /\ IsIterable(a.receiver)
       /\ \/ ~Truthy(a.message)
          \/ ~Truthy(a.receiver)
          \/ \E n \in Numbers(PySet(a.receiver)) : ~PHONE_NUMBER_REGEX_search(n)

\* C1: a send whose inputs fail validation raises the validation error with
\* no connection opened, no remote call issued and neither hook invoked; and
\* whenever send raises a validation error, nothing of the gateway was touched
C1_ValidationBeforeGateway ==
    IsSend =>
        /\ RejectedInput(call.args) =>
              /\ IsValidationError(call.outcome)
              /\ call.events = <<>>
              /\ call.requests = <<>>
        /\ IsValidationError(call.outcome) =>
              Opened = 0 /\ Remote = 0 /\ Before = 0 /\ Post = 0

C1_Witness ==
    /\ IsSend
    /\ call.args.sms_type = "lms"
    /\ call.args.receiver = PyStr(Landline)
    /\ call.outcome = SMSModuleException(<<"Please check phone number!">>)
    /\ call.events = <<>>

\* C2: a single-variant send with a non-empty string message and a receiver
\* string that does not have the phone-number shape fails with the validation
\* error
C2_OnlyPhoneShapeAccepted ==
    ( /\ IsSend
      /\ call.args.sms_type \in SINGLE_SMS_TYPES
      /\ call.args.message.ty = "str" /\ Truthy(call.args.message)
      /\ call.args.receiver.ty = "str"
      /\ ~HasPhoneShape(call.args.receiver.s) )
    => IsValidationError(call.outcome)

ValidMultiInput(a) ==
    /\ a.sms_type \in MULTI_SMS_TYPES
    /\ Truthy(a.message)
    /\ a.receiver.ty \in {"list", "set"}
    /\ Truthy(a.receiver)
    /\ \A n \in Numbers(a.receiver) : HasPhoneShape(n)

\* C3: a multi-variant send with a non-empty message and a non-empty list or
\* set of receivers of the phone-number shape builds a request whose receiver
\* field is the distinct numbers, each once, comma-separated, and whose
\* sms_type is the base form
C3_MultiRequestBuilt ==
    (IsSend /\ ValidMultiInput(call.args)) =>
        /\ call.param /= NoParam
        /\ call.param.receiver.ty = "str"
        /\ call.param.receiver.s \in JoinSet(Numbers(call.args.receiver))
        /\ call.param.sms_type = Last3(call.args.sms_type)

\* C4: when the remote call of a send ends in a fault, send raises the domain
\* error with the generic message, the before hook has run exactly once, the
\* post hook has not run and no key is returned
C4_FaultBecomesDomainError ==
    (IsSend /\ call.gw.kind = "raise") =>
        /\ call.outcome = BadRequest
        /\ Before = 1
        /\ Post = 0
        /\ call.outcome.key = NoKey

\* C5 as stated: a result code other than "0000" never makes send raise; the
\* post hook is invoked and the dispatch key returned
C5_Original ==
    (IsSend /\ call.gw.kind = "response" /\ call.gw.code /= SUCCESS_CODE) =>
        /\ Post = 1
        /\ call.outcome = Return(call.param.key, "")

\* C5 amended: whatever code the gateway answers, the post hook is invoked
\* exactly once, and unless that hook itself raises send returns the dispatch
\* key of the request; send raises after an answer only when the hook raised
C5_CodeDoesNotDecideOutcome ==
    (IsSend /\ call.gw.kind = "response") =>
        /\ Post = 1
        /\ client.post = "pass" => call.outcome = Return(call.param.key, "")
        /\ call.outcome.kind = "raise" => client.post /= "pass"

C5_Witness ==
    /\ IsSend
    /\ call.gw = Response("0001")
    /\ Post = 1
    /\ call.outcome.kind = "return"
    /\ call.outcome.key = call.param.key

AllRequiredSet(d) ==
    \A k \in Range(REQUIRED_SETTINGS) : k \in Keys(d) /\ Truthy(Lookup(d, k))

\* C6: construction raises exactly when one of API_ID, API_KEY, SENDER is
\* missing or falsy in the configuration, the error then names such a key and
\* no client exists; otherwise the client is constructed
C6_ConstructionChecksRequired ==
    call.op = "init" =>
        IF AllRequiredSet(call.source.dict)
        THEN call.outcome.kind /= "raise" /\ client.constructed
        ELSE /\ ~client.constructed
             /\ \E k \in Range(REQUIRED_SETTINGS) :
                   /\ ~(k \in Keys(call.source.dict)
                          /\ Truthy(Lookup(call.source.dict, k)))
                   /\ call.outcome = SMSModuleException(MissingSetting(k))

\* C7: get_send_result returns the code of the gateway's answer unchanged,
\* whatever the code; it raises the domain error only when the remote call
\* raised; it issues exactly one remote call and invokes no hook
C7_ResultCodeReturnedVerbatim ==
    call.op = "get_send_result" =>
        /\ call.gw.kind = "response" =>
              call.outcome = Return(NoKey, call.gw.code)
        /\ call.outcome = BadRequest => call.gw.kind = "raise"
        /\ call.outcome.kind = "raise" => call.gw.kind = "raise"
        /\ Remote = 1
        /\ Len(call.requests) = 1
        /\ call.requests[1].key = call.args.key
        /\ Before = 0 /\ Post = 0

C7_Witness ==
    /\ call.op = "get_send_result"
    /\ call.gw = Response("0001")
    /\ call.outcome = Return(NoKey, "0001")

\* C8 as stated: every send that passes validation issues exactly one remote
\* call, and when it is answered send returns the key of the request, the
\* whole seconds of the clock read when the request was built
C8_Original ==
    (IsSend /\ call.param /= NoParam) =>
        /\ Remote = 1
        /\ call.gw.kind = "response" =>
              /\ call.outcome = Return(call.requests[1].key, "")
              /\ call.outcome.key = call.readAt \div TicksPerSecond

\* C8 amended: a send that passes validation issues at most one remote call,
\* exactly one when the before hook returns; when the call is answered and
\* the post hook returns, send returns the key of the request, the whole
\* seconds of the clock read when the request was built
C8_OneCallSameKey ==
    (IsSend /\ call.param /= NoParam) =>
        /\ Remote <= 1
        /\ Len(call.requests) = Remote
        /\ client.before = "pass" => Remote = 1
        /\ (call.gw.kind = "response" /\ client.post = "pass") =>
              /\ call.outcome = Return(call.requests[1].key, "")
              /\ call.outcome.key = call.readAt \div TicksPerSecond
        /\ Remote = 1 => call.requests[1].key = call.readAt \div TicksPerSecond

C8_Witness ==
    /\ IsSend
    /\ call.readAt = 3
    /\ Remote = 1
    /\ call.gw.kind = "response"
    /\ call.outcome = Return(1, "")
    /\ call.requests[1].key = 1

\* C9: a send asked for with sms or lms is rendered with the single-recipient
\* template, one asked for with multi_sms or multi_lms with the
\* multi-recipient template, and the type field of the payload is the base
\* form in both cases
C9_TemplateByVariantClass ==
    (IsSend /\ client.before = "pass") =>
        /\ (call.args.sms_type \in SINGLE_SMS_TYPES /\ call.param /= NoParam) =>
              /\ Len(call.requests) = 1
              /\ call.requests[1].format = "REQUEST_SMS_XML_FORMAT"
              /\ call.requests[1].sms_type = call.args.sms_type
        /\ ValidMultiInput(call.args) =>
              /\ Len(call.requests) = 1
              /\ call.requests[1].format = "REQUEST_MULTI_SMS_XML_FORMAT"
              /\ call.requests[1].sms_type = Last3(call.args.sms_type)

\* C10: when the before hook raises during a send, the error it raised is the
\* outcome of send, no remote call is issued and the post hook is not invoked
C10_HookErrorUnchanged ==
    (IsSend /\ Before = 1 /\ client.before /= "pass") =>
        /\ call.outcome = Raise(client.before, <<>>)
        /\ Remote = 0
        /\ Post = 0

====
